---- MODULE Spec2Model ----
(***************************************************************************)
(* State machine of the access-protocol accounting core:                   *)
(*   smart-contract/program/src/state.rs                                   *)
(*   smart-contract/program/src/processor/close_stake_pool.rs              *)
(*   smart-contract/program/src/processor/claim_bond_rewards.rs            *)
(* Every instruction is one atomic transaction: it either returns Ok and   *)
(* its account writes are kept, or it returns an error / panics and the    *)
(* runtime discards every write.                                           *)
(***************************************************************************)
EXTENDS Integers, Sequences, FiniteSets, TLC

VARIABLES
    pool,            \* StakePoolHeader of the one stake pool
    balances,        \* StakePool.balances: the slots written so far (the
                     \* other slots of the zeroed account data hold 0)
    stake_accounts,  \* StakeAccount of every staker of the pool
    bonds,           \* BondAccount of every bond sold against the pool
    now,             \* Clock::get().unix_timestamp
    slot_writer,     \* history: ordinal of the crank that last wrote each slot
    cranks,          \* history: number of successful cranks
    unlocks,         \* history: number of successful unlocks
    last             \* history: the last instruction and its outcome

vars == <<pool, balances, stake_accounts, bonds, now, slot_writer, cranks,
          unlocks, last>>

(***************************************************************************)
(* Integer widths.  u64 and u128 are modelled by narrower unsigned words   *)
(* (TLC integers are 32 bit); u128 keeps twice the bits of u64.            *)
(***************************************************************************)
U64_MAX == 32767
U128_MAX == 1073741823
U16_MAX == 65535

\* program constants (state.rs)
SECONDS_IN_DAY == 86400
STAKER_MULTIPLIER == 80
STAKE_BUFFER_LEN == 365

\* bounds of the model
MaxDays == 1
MaxCranks == 1
MaxClaimDays == 2
MaxClaimCranks == 2
MaxCranksLong == 368
MaxUnlocks == 4
MaxMissed == 3

Stakers == {"s1", "s2"}
Bonds == {"b1"}
Slots == 0 .. (STAKE_BUFFER_LEN - 1)
\* amounts a staker moves, amounts a bond is sold for, mint supplies read
BondAmounts == {200, U64_MAX}
StakeAmounts == {(U64_MAX - 200) \div 2}
\* schedules of the bonds whose unlocks are followed
UnlockSold == {250, U64_MAX}
UnlockAmounts == {100, U64_MAX}
Supplies == {0, 1, 10000}

\* Option<T>: None or Some(v)
None == <<>>
Some(v) == <<v>>

\* u64::checked_add / checked_sub, u128::checked_add / checked_mul / checked_div
checked_add(a, b, max) == IF a > max - b THEN None ELSE Some(a + b)
checked_sub(a, b) == IF b > a THEN None ELSE Some(a - b)
checked_mul(a, b, max) == IF b # 0 /\ a > max \div b THEN None ELSE Some(a * b)
checked_div(a, b) == IF b = 0 THEN None ELSE Some(a \div b)

\* Result<u64, ProgramError>; a panic aborts the transaction like an error
Ok(v) == [result |-> "Ok", val |-> v]
Err(e) == [result |-> e, val |-> 0]

Tag == {"Uninitialized", "StakePool", "StakeAccount", "InactiveBondAccount",
        "BondAccount", "CentralState", "Deleted"}

(***************************************************************************)
(* BondAccount::calc_unlock_amount.  `missed_periods * self.unlock_amount` *)
(* is an unchecked u64 product: a build with overflow checks panics on     *)
(* overflow, a build without them wraps (wraps = TRUE).                    *)
(***************************************************************************)
calc_unlock_amount(self, missed_periods, wraps) ==
    LET prod == missed_periods * self.unlock_amount
        unlock_amount == prod % (U64_MAX + 1)
        sum == checked_add(self.total_unlocked_amount, unlock_amount, U64_MAX)
        rest == checked_sub(self.total_amount_sold, unlock_amount)
    IN  IF prod > U64_MAX /\ ~wraps THEN Err("Panic")
        ELSE IF sum = None THEN Err("Overflow")
        ELSE IF sum[1] > self.total_amount_sold
             THEN IF rest = None THEN Err("Overflow") ELSE Ok(rest[1])
             ELSE Ok(unlock_amount)


(***************************************************************************)
(* StakePool / StakePoolHeader                                             *)
(***************************************************************************)
\* StakePool::create_key: the program address derived from the seeds
create_key(nonce, owner, destination) == <<"stake_pool", owner, destination, nonce>>

\* the address of the pool of this model: nonce 0, owner and destination alice
PoolKey == create_key(0, "alice", "alice")

\* StakePoolHeader::new
StakePoolHeader_new(owner, rewards_destination, nonce, current_time) ==
    [tag |-> "StakePool", nonce |-> nonce, current_day_idx |-> 0,
     total_staked |-> 0, last_crank_time |-> current_time,
     owner |-> owner, rewards_destination |-> rewards_destination]

\* balances[i] of the STAKE_BUFFER_LEN slots of the account data
slot_value(bal, i) == IF i \in DOMAIN bal THEN bal[i] ELSE 0

\* buf[i] = val
slot_store(buf, i, val) ==
    [j \in DOMAIN buf \cup {i} |-> IF j = i THEN val ELSE buf[j]]

\* a tag test that only rejects accounts of another type
get_checked_not_deleted(header) ==
    header.tag \in {"StakePool", "Uninitialized", "Deleted"}

\* StakePool::get_checked: the tag test that guards every load of the pool
get_checked(header) == header.tag \in {"StakePool", "Uninitialized"}

\* StakePool::push_balances_buff: the slot written ...
push_slot(header) == header.current_day_idx % STAKE_BUFFER_LEN

\* ... and the header after `current_day_idx += 1` (u16; None when the sum
\* leaves the u16 range and the build checks overflow)
push_day_idx(header, wraps) ==
    IF header.current_day_idx + 1 > U16_MAX
    THEN IF wraps THEN Some(0) ELSE None
    ELSE Some(header.current_day_idx + 1)

\* StakePoolHeader::close
StakePoolHeader_close(header) == [header EXCEPT !.tag = "Deleted"]

\* a deposit that saturates at u64::MAX
StakePoolHeader_deposit_saturating(header, amount) ==
    LET r == checked_add(header.total_staked, amount, U64_MAX)
    IN  Some([header EXCEPT !.total_staked = IF r = None THEN U64_MAX ELSE r[1]])

\* StakePoolHeader::deposit / withdraw: checked_add(..).unwrap() panics on None
StakePoolHeader_deposit(header, amount) ==
    LET r == checked_add(header.total_staked, amount, U64_MAX)
    IN  IF r = None THEN None ELSE Some([header EXCEPT !.total_staked = r[1]])

StakePoolHeader_withdraw(header, amount) ==
    LET r == checked_sub(header.total_staked, amount)
    IN  IF r = None THEN None ELSE Some([header EXCEPT !.total_staked = r[1]])

(***************************************************************************)
(* StakeAccount                                                            *)
(***************************************************************************)
StakeAccount_new(owner, current_time) ==
    [tag |-> "StakeAccount", owner |-> owner, stake_amount |-> 0,
     last_claimed_time |-> current_time]

StakeAccount_from_account_info(acc) == acc.tag \in {"StakeAccount", "Uninitialized"}

StakeAccount_close(acc) == [acc EXCEPT !.tag = "Deleted"]

StakeAccount_deposit(acc, amount) ==
    LET r == checked_add(acc.stake_amount, amount, U64_MAX)
    IN  IF r = None THEN None ELSE Some([acc EXCEPT !.stake_amount = r[1]])

StakeAccount_withdraw(acc, amount) ==
    LET r == checked_sub(acc.stake_amount, amount)
    IN  IF r = None THEN None ELSE Some([acc EXCEPT !.stake_amount = r[1]])

(***************************************************************************)
(* BondAccount                                                             *)
(***************************************************************************)
BondAccount_new(owner, total_amount_sold, unlock_amount, last_claimed_time) ==
    [tag |-> "InactiveBondAccount", owner |-> owner,
     stake_pool |-> PoolKey,
     total_amount_sold |-> total_amount_sold,
     total_staked |-> total_amount_sold,
     unlock_amount |-> unlock_amount,
     total_unlocked_amount |-> 0,
     last_claimed_time |-> last_claimed_time]

is_active(bond) == bond.tag = "BondAccount"

activate(bond) == [bond EXCEPT !.tag = "BondAccount"]

BondAccount_from_account_info(bond, allow_inactive) ==
    LET tag == IF allow_inactive THEN "InactiveBondAccount" ELSE "BondAccount"
    IN  bond.tag \in {tag, "Uninitialized"}


(***************************************************************************)
(* Reward computation of process_claim_bond_rewards                        *)
(***************************************************************************)
\* utils::safe_downcast: u128 -> u64
safe_downcast(n) == IF n > U64_MAX THEN None ELSE Some(n)

\* utils::calc_previous_balances_and_inflation: the snapshots of the days
\* elapsed since last_claimed_time (at most the buffer length), newest first,
\* summed with checked u128 additions
RECURSIVE sum_days(_, _, _, _)
sum_days(header, bal, k, acc) ==
    IF k = 0 \/ acc = None THEN acc
    ELSE sum_days(header, bal, k - 1,
           checked_add(acc[1],
               slot_value(bal,
                   (push_slot(header) + STAKE_BUFFER_LEN - k) % STAKE_BUFFER_LEN),
               U128_MAX))

nb_days_to_claim(current_time, last_claimed_time) ==
    LET d == IF current_time > last_claimed_time
             THEN (current_time - last_claimed_time) \div SECONDS_IN_DAY ELSE 0
    IN  IF d > STAKE_BUFFER_LEN THEN STAKE_BUFFER_LEN ELSE d

calc_previous_balances_and_inflation(current_time, last_claimed_time, header, bal) ==
    sum_days(header, bal, nb_days_to_claim(current_time, last_claimed_time), Some(0))

\* a chain whose final downcast saturates at u64::MAX
calc_rewards_saturating(balances_and_inflation, supply, bond_staked, pool_staked) ==
    LET a == checked_div(balances_and_inflation, supply)
        b == IF a = None THEN None ELSE checked_mul(a[1], STAKER_MULTIPLIER, U128_MAX)
        c == IF b = None THEN None ELSE checked_div(b[1], 100)
        d == IF c = None THEN None ELSE checked_mul(c[1], bond_staked, U128_MAX)
        e == IF d = None THEN None ELSE checked_div(d[1], pool_staked)
    IN  IF e = None THEN None ELSE Some(IF e[1] > U64_MAX THEN U64_MAX ELSE e[1])

\* a chain that multiplies by the staker share before it divides by the supply
calc_rewards_reordered(balances_and_inflation, supply, bond_staked, pool_staked) ==
    LET a == checked_mul(balances_and_inflation, STAKER_MULTIPLIER, U128_MAX)
        b == IF a = None THEN None ELSE checked_div(a[1], 100)
        c == IF b = None THEN None ELSE checked_div(b[1], supply)
        d == IF c = None THEN None ELSE checked_mul(c[1], bond_staked, U128_MAX)
        e == IF d = None THEN None ELSE checked_div(d[1], pool_staked)
    IN  IF e = None THEN None ELSE safe_downcast(e[1])

\* a chain that scales by the stake of the pool over the stake of the bond
calc_rewards_swapped(balances_and_inflation, supply, bond_staked, pool_staked) ==
    LET a == checked_div(balances_and_inflation, supply)
        b == IF a = None THEN None ELSE checked_mul(a[1], STAKER_MULTIPLIER, U128_MAX)
        c == IF b = None THEN None ELSE checked_div(b[1], 100)
        d == IF c = None THEN None ELSE checked_mul(c[1], pool_staked, U128_MAX)
        e == IF d = None THEN None ELSE checked_div(d[1], bond_staked)
    IN  IF e = None THEN None ELSE safe_downcast(e[1])

\* claim_bond_rewards.rs: the checked chain that yields `rewards`; every step
\* that yields None leaves with Overflow
calc_rewards(balances_and_inflation, supply, bond_staked, pool_staked) ==
    LET a == checked_div(balances_and_inflation, supply)
        b == IF a = None THEN None ELSE checked_mul(a[1], STAKER_MULTIPLIER, U128_MAX)
        c == IF b = None THEN None ELSE checked_div(b[1], 100)
        d == IF c = None THEN None ELSE checked_mul(c[1], bond_staked, U128_MAX)
        e == IF d = None THEN None ELSE checked_div(d[1], pool_staked)
    IN  IF e = None THEN None ELSE safe_downcast(e[1])

\* what a handler hands back: the error or Ok, the transfers it invoked and
\* their amount
Outcome(result, invoked, amount) ==
    [result |-> result, invoked |-> invoked, amount |-> amount]

\* the time elapsed since the stored one
claimed_time_elapsed(bond, current_time) == current_time - bond.last_claimed_time

\* a time accumulated onto the stored one
claimed_time_added(bond, current_time) == bond.last_claimed_time + current_time

\* the time process_claim_bond_rewards stores on success
claimed_time(bond, current_time) == current_time

\* process_claim_bond_rewards up to the state update: caller is the key of
\* the bond_owner account, fault an invalid externally owned account
claim_outcome(header, bal, bond, current_time, caller, signed, fault, supply, transfer_ok) ==
    LET agg == calc_previous_balances_and_inflation(
                   current_time, bond.last_claimed_time, header, bal)
        rewards == IF agg = None THEN None
                   ELSE calc_rewards(agg[1], supply, bond.total_staked,
                                     header.total_staked)
    IN  IF fault = "WrongOwner" THEN Outcome("WrongOwner", 0, 0)
        ELSE IF ~signed THEN Outcome("StakePoolOwnerMustSign", 0, 0)
        ELSE IF ~get_checked(header) THEN Outcome("DataTypeMismatch", 0, 0)
        ELSE IF ~BondAccount_from_account_info(bond, FALSE)
             THEN Outcome("DataTypeMismatch", 0, 0)
        ELSE IF bond.stake_pool # PoolKey THEN Outcome("WrongStakePool", 0, 0)
        ELSE IF caller # bond.owner THEN Outcome("StakeAccountOwnerMismatch", 0, 0)
        ELSE IF fault = "WrongMint" THEN Outcome("WrongMint", 0, 0)
        ELSE IF rewards = None THEN Outcome("Overflow", 0, 0)
        ELSE IF ~transfer_ok THEN Outcome("TransferFailed", 1, rewards[1])
        ELSE Outcome("Ok", 1, rewards[1])

\* a bond saved before the transfer is known to have succeeded
claim_persists_early(outcome) == outcome.result \in {"Ok", "TransferFailed"}

\* whether the bond is saved after the outcome
claim_persists(outcome) == outcome.result = "Ok"


(***************************************************************************)
(* Instructions.  `last` records the instruction just processed.           *)
(***************************************************************************)
Done(op, who, arg, outcome) ==
    [op |-> op, who |-> who, arg |-> arg, result |-> outcome.result,
     invoked |-> outcome.invoked, amount |-> outcome.amount]

\* the accounts and data handed to process_claim_bond_rewards: the key of
\* the bond_owner account, whether it signed, an invalid account if any, the
\* supply of the mint and whether the token program carries out the transfer
ClaimInputs ==
    ({"bob"} \X {TRUE} \X {"none"} \X Supplies \X BOOLEAN)
    \cup {<<"alice", TRUE, "none", 1, TRUE>>, <<"bob", FALSE, "none", 1, TRUE>>,
          <<"bob", TRUE, "WrongOwner", 1, TRUE>>, <<"bob", TRUE, "WrongMint", 1, TRUE>>}

\* the accounts and parameters handed to process_close_stake_pool: the key
\* of the owner account, whether it signed, the nonce and the destination
CloseInputs ==
    {<<"alice", TRUE, 0, "alice">>, <<"bob", TRUE, 0, "alice">>,
     <<"alice", FALSE, 0, "alice">>, <<"alice", TRUE, 1, "alice">>,
     <<"alice", TRUE, 0, "bob">>}

\* a claim that takes the reward paid out of the stake of the pool
ClaimBondRewards_from_stake(b, caller, signed, fault, supply, transfer_ok) ==
    LET out == claim_outcome(pool, balances, bonds[b], now, caller, signed,
                             fault, supply, transfer_ok)
        paid == IF out.amount > pool.total_staked THEN pool.total_staked
                ELSE out.amount
    IN  /\ bonds' = IF claim_persists(out)
                    THEN [bonds EXCEPT ![b].last_claimed_time = claimed_time(bonds[b], now)]
                    ELSE bonds
        /\ pool' = IF claim_persists(out)
                   THEN [pool EXCEPT !.total_staked = @ - paid] ELSE pool
        /\ last' = Done("claim_bond_rewards", b, supply, out)
        /\ UNCHANGED <<balances, stake_accounts, now, slot_writer, cranks, unlocks>>

\* process_claim_bond_rewards
ClaimBondRewards(b, caller, signed, fault, supply, transfer_ok) ==
    LET out == claim_outcome(pool, balances, bonds[b], now, caller, signed,
                             fault, supply, transfer_ok)
    IN  /\ bonds' = IF claim_persists(out)
                    THEN [bonds EXCEPT ![b].last_claimed_time = claimed_time(bonds[b], now)]
                    ELSE bonds
        /\ last' = Done("claim_bond_rewards", b, supply, out)
        /\ UNCHANGED <<pool, balances, stake_accounts, now, slot_writer, cranks, unlocks>>

\* utils::assert_empty_stake_pool
assert_empty_stake_pool(header) == header.total_staked = 0

\* a close that any signer may ask for
close_outcome_any_caller(header, caller, signed, nonce, destination) ==
    IF ~signed THEN "StakePoolOwnerMustSign"
    ELSE IF ~get_checked(header) THEN "Panic"
    ELSE IF ~(header.total_staked = 0) THEN "PoolNotEmpty"
    ELSE "Ok"

\* a close that does not look at the stake left in the pool
close_outcome_unchecked(header, caller, signed, nonce, destination) ==
    IF ~signed THEN "StakePoolOwnerMustSign"
    ELSE IF create_key(nonce, caller, destination) # PoolKey THEN "AccountNotDeterministic"
    ELSE IF ~get_checked(header) THEN "Panic"
    ELSE IF caller # header.owner THEN "WrongStakePoolOwner"
    ELSE "Ok"

\* process_close_stake_pool up to the state update
close_outcome(header, caller, signed, nonce, destination) ==
    IF ~signed THEN "StakePoolOwnerMustSign"
    ELSE IF create_key(nonce, caller, destination) # PoolKey THEN "AccountNotDeterministic"
    ELSE IF ~get_checked(header) THEN "Panic"
    ELSE IF caller # header.owner THEN "WrongStakePoolOwner"
    ELSE IF ~assert_empty_stake_pool(header) THEN "PoolNotEmpty"
    ELSE "Ok"

\* process_close_stake_pool
CloseStakePool(caller, signed, nonce, destination) ==
    LET res == close_outcome(pool, caller, signed, nonce, destination)
    IN  /\ pool' = IF res = "Ok" THEN StakePoolHeader_close(pool) ELSE pool
        /\ last' = Done("close_stake_pool", "pool", 0, Outcome(res, 0, 0))
        /\ UNCHANGED <<balances, stake_accounts, bonds, now, slot_writer, cranks, unlocks>>

\* stake: StakeAccount::deposit and StakePoolHeader::deposit in one transaction
Stake(s, amount) ==
    LET acc == StakeAccount_deposit(stake_accounts[s], amount)
        hd  == StakePoolHeader_deposit(pool, amount)
        res == IF ~get_checked(pool) THEN "DataTypeMismatch"
               ELSE IF ~StakeAccount_from_account_info(stake_accounts[s])
                    THEN "DataTypeMismatch"
               ELSE IF acc = None \/ hd = None THEN "Panic"
               ELSE "Ok"
    IN  /\ stake_accounts' = IF res = "Ok" THEN [stake_accounts EXCEPT ![s] = acc[1]]
                             ELSE stake_accounts
        /\ pool' = IF res = "Ok" THEN hd[1] ELSE pool
        /\ last' = Done("stake", s, amount, Outcome(res, 0, 0))
        /\ UNCHANGED <<balances, bonds, now, slot_writer, cranks, unlocks>>

\* unstake: StakeAccount::withdraw and StakePoolHeader::withdraw, then the
\* transfer of the tokens out of the vault
Unstake(s, amount, transfer_ok) ==
    LET acc == StakeAccount_withdraw(stake_accounts[s], amount)
        hd  == StakePoolHeader_withdraw(pool, amount)
        out == IF ~get_checked(pool) THEN Outcome("DataTypeMismatch", 0, 0)
               ELSE IF ~StakeAccount_from_account_info(stake_accounts[s])
                    THEN Outcome("DataTypeMismatch", 0, 0)
               ELSE IF acc = None \/ hd = None THEN Outcome("Panic", 0, 0)
               ELSE IF ~transfer_ok THEN Outcome("TransferFailed", 1, amount)
               ELSE Outcome("Ok", 1, amount)
    IN  /\ stake_accounts' = IF out.result = "Ok"
                             THEN [stake_accounts EXCEPT ![s] = acc[1]]
                             ELSE stake_accounts
        /\ pool' = IF out.result = "Ok" THEN hd[1] ELSE pool
        /\ last' = Done("unstake", s, amount, out)
        /\ UNCHANGED <<balances, bonds, now, slot_writer, cranks, unlocks>>

\* a test that lets every stake account be closed
assert_empty_stake_account_any(acc) == TRUE

\* the test the close of a stake account makes before StakeAccount::close
assert_empty_stake_account(acc) == acc.stake_amount = 0

\* close of a stake account: only an empty account is closed
CloseStakeAccount(s) ==
    LET res == IF ~StakeAccount_from_account_info(stake_accounts[s])
               THEN "DataTypeMismatch"
               ELSE IF ~assert_empty_stake_account(stake_accounts[s])
                    THEN "StakeAccountNotEmpty"
               ELSE "Ok"
    IN  /\ stake_accounts' = IF res = "Ok"
                             THEN [stake_accounts EXCEPT ![s] = StakeAccount_close(@)]
                             ELSE stake_accounts
        /\ last' = Done("close_stake_account", s, 0, Outcome(res, 0, 0))
        /\ UNCHANGED <<pool, balances, bonds, now, slot_writer, cranks, unlocks>>

\* claim of a bond by its buyer: the bond is activated and its stake is
\* credited to the pool
ClaimBond(b) ==
    LET hd  == StakePoolHeader_deposit(pool, bonds[b].total_staked)
        res == IF ~get_checked(pool) THEN "DataTypeMismatch"
               ELSE IF ~BondAccount_from_account_info(bonds[b], TRUE)
                    THEN "DataTypeMismatch"
               ELSE IF hd = None THEN "Panic"
               ELSE "Ok"
    IN  /\ bonds' = IF res = "Ok" THEN [bonds EXCEPT ![b] = activate(@)] ELSE bonds
        /\ pool' = IF res = "Ok" THEN hd[1] ELSE pool
        /\ last' = Done("claim_bond", b, 0, Outcome(res, 0, 0))
        /\ UNCHANGED <<balances, stake_accounts, now, slot_writer, cranks, unlocks>>

\* crank: StakePool::push_balances_buff(total_staked), then last_crank_time
CrankStep(wraps) ==
    LET idx == push_day_idx(pool, wraps)
        res == IF ~get_checked(pool) THEN "DataTypeMismatch"
               ELSE IF push_slot(pool) \notin Slots \/ idx = None THEN "Panic"
               ELSE "Ok"
    IN  /\ pool' = IF res = "Ok"
                   THEN [pool EXCEPT !.current_day_idx = idx[1], !.last_crank_time = now]
                   ELSE pool
        /\ balances' = IF res = "Ok"
                       THEN slot_store(balances, push_slot(pool), pool.total_staked)
                       ELSE balances
        /\ slot_writer' = IF res = "Ok"
                          THEN slot_store(slot_writer, push_slot(pool), cranks + 1)
                          ELSE slot_writer
        /\ cranks' = IF res = "Ok" THEN cranks + 1 ELSE cranks
        /\ last' = Done("crank", "pool", 0, Outcome(res, 0, 0))
        /\ UNCHANGED <<stake_accounts, bonds, now, unlocks>>

Crank(wraps) == cranks < MaxCranks /\ CrankStep(wraps)

CrankClaim(wraps) == cranks < MaxClaimCranks /\ CrankStep(wraps)

\* the number of cranks a long-lived pool has seen when it is picked up
OldPoolCranks == U16_MAX - 2

CrankLong(wraps) ==
    /\ \/ cranks < MaxCranksLong
       \/ cranks >= OldPoolCranks /\ cranks < OldPoolCranks + MaxCranksLong
    /\ CrankStep(wraps)

\* unlock of bond tokens: the amount of calc_unlock_amount is added to
\* total_unlocked_amount
UnlockBondTokens(b, missed_periods, wraps) ==
    LET amt == calc_unlock_amount(bonds[b], missed_periods, wraps)
        tot == checked_add(bonds[b].total_unlocked_amount, amt.val, U64_MAX)
        res == IF ~BondAccount_from_account_info(bonds[b], FALSE) THEN "DataTypeMismatch"
               ELSE IF amt.result # "Ok" THEN amt.result
               ELSE IF tot = None THEN "Overflow"
               ELSE "Ok"
    IN  /\ unlocks < MaxUnlocks
        /\ bonds' = IF res = "Ok"
                    THEN [bonds EXCEPT ![b].total_unlocked_amount = tot[1]]
                    ELSE bonds
        /\ unlocks' = IF res = "Ok" THEN unlocks + 1 ELSE unlocks
        /\ last' = Done("unlock_bond_tokens", b, missed_periods,
                        Outcome(res, 0, IF res = "Ok" THEN amt.val ELSE 0))
        /\ UNCHANGED <<pool, balances, stake_accounts, now, slot_writer, cranks>>

\* the clock advances by dt seconds
TickStep(dt) ==
    /\ now' = now + dt
    /\ last' = Done("tick", "clock", 0, Outcome("Ok", 0, 0))
    /\ UNCHANGED <<pool, balances, stake_accounts, bonds, slot_writer, cranks, unlocks>>

Tick(dt) == now + dt <= MaxDays * SECONDS_IN_DAY /\ TickStep(dt)

TickClaim(dt) == now + dt <= MaxClaimDays * SECONDS_IN_DAY /\ TickStep(dt)

(***************************************************************************)
(* Specifications                                                          *)
(***************************************************************************)
Created == Done("create", "pool", 0, Outcome("Ok", 0, 0))

\* a pool, its stake accounts and an inactive bond, all just created
Init ==
    /\ pool = StakePoolHeader_new("alice", "alice", 0, 0)
    /\ balances = <<>>
    /\ stake_accounts = [s \in Stakers |-> StakeAccount_new(s, 0)]
    /\ \E sold \in BondAmounts :
           bonds = [b \in Bonds |-> BondAccount_new("bob", sold, 100, 0)]
    /\ now = 0
    /\ slot_writer = <<>>
    /\ cranks = 0
    /\ unlocks = 0
    /\ last = Created

Next ==
    \/ \E b \in Bonds, in \in ClaimInputs :
              ClaimBondRewards(b, in[1], in[2], in[3], in[4], in[5])
    \/ \E in \in CloseInputs : CloseStakePool(in[1], in[2], in[3], in[4])
    \/ \E s \in Stakers, amount \in StakeAmounts : Stake(s, amount)
    \/ \E s \in Stakers, amount \in StakeAmounts, transfer_ok \in BOOLEAN :
              Unstake(s, amount, transfer_ok)
    \/ \E s \in Stakers : CloseStakeAccount(s)
    \/ \E b \in Bonds : ClaimBond(b)
    \/ \E wraps \in BOOLEAN : Crank(wraps)
    \/ \E dt \in {SECONDS_IN_DAY} : Tick(dt)

Spec == Init /\ [][Next]_vars

\* the instructions a bond reward depends on: one staker, the bond, the
\* crank and the clock, over a longer time
NextClaim ==
    \/ \E b \in Bonds, in \in ClaimInputs :
              ClaimBondRewards(b, in[1], in[2], in[3], in[4], in[5])
    \/ \E amount \in StakeAmounts : Stake("s1", amount)
    \/ \E amount \in StakeAmounts, transfer_ok \in BOOLEAN :
              Unstake("s1", amount, transfer_ok)
    \/ \E b \in Bonds : ClaimBond(b)
    \/ \E wraps \in BOOLEAN : CrankClaim(wraps)
    \/ \E dt \in {SECONDS_IN_DAY} : TickClaim(dt)

SpecClaim == Init /\ [][NextClaim]_vars


\* an active bond with nothing unlocked yet, its stake credited to the pool
InitUnlock ==
    /\ \E sold \in UnlockSold, amount \in UnlockAmounts :
          /\ bonds = [b \in Bonds |-> activate(BondAccount_new("bob", sold, amount, 0))]
          /\ pool = [StakePoolHeader_new("alice", "alice", 0, 0)
                        EXCEPT !.total_staked = sold]
    /\ balances = <<>>
    /\ stake_accounts = [s \in Stakers |-> StakeAccount_new(s, 0)]
    /\ now = 0
    /\ slot_writer = <<>>
    /\ cranks = 0
    /\ unlocks = 0
    /\ last = Created

NextUnlock ==
    \E b \in Bonds, missed_periods \in 0 .. MaxMissed, wraps \in BOOLEAN :
        UnlockBondTokens(b, missed_periods, wraps)

SpecUnlock == InitUnlock /\ [][NextUnlock]_vars

\* the slots written by n cranks of a pool, and the crank that wrote slot i last
WrittenSlots(n) == IF n >= STAKE_BUFFER_LEN THEN Slots ELSE 0 .. (n - 1)
LastWriter(i, n) == n - ((n - 1 - i) % STAKE_BUFFER_LEN)

\* a pool holding the stake of one staker, cranked day after day: either
\* a new pool, or its state after OldPoolCranks cranks
InitCrank ==
    /\ \E amount \in StakeAmounts, n \in {0, OldPoolCranks} :
          /\ stake_accounts = [s \in Stakers |->
                 IF s = "s1" THEN [StakeAccount_new(s, 0) EXCEPT !.stake_amount = amount]
                 ELSE StakeAccount_new(s, 0)]
          /\ pool = [StakePoolHeader_new("alice", "alice", 0, 0)
                        EXCEPT !.total_staked = amount, !.current_day_idx = n]
          /\ balances = [i \in WrittenSlots(n) |-> amount]
          /\ slot_writer = [i \in WrittenSlots(n) |-> LastWriter(i, n)]
          /\ cranks = n
          /\ last = IF n = 0 THEN Created
                    ELSE Done("crank", "pool", 0, Outcome("Ok", 0, 0))
    /\ \E sold \in BondAmounts :
           bonds = [b \in Bonds |-> BondAccount_new("bob", sold, 100, 0)]
    /\ now = SECONDS_IN_DAY
    /\ unlocks = 0

NextCrank == \E wraps \in BOOLEAN : CrankLong(wraps)

SpecCrank == InitCrank /\ [][NextCrank]_vars

(***************************************************************************)
(* Accounts of every tag.  The instructions load the accounts the caller   *)
(* names: an account of the program may hold any entity, a closed one, or  *)
(* the zeroed data of an account that was allocated and never written.     *)
(***************************************************************************)
PoolTags == {"StakePool", "Uninitialized", "Deleted", "StakeAccount"}
BondTags == {"InactiveBondAccount", "BondAccount", "Uninitialized", "Deleted",
             "StakeAccount"}

\* the all-zero public key of zeroed account data
ZeroKey == <<>>

\* the owners a pool header may record; the address of the pool is derived
\* from alice
PoolOwners == {"alice", "bob"}

\* the StakePoolHeader read from the account of the pool when it holds tag t
PoolOfTag(t, owner, staked) ==
    IF t = "Uninitialized"
    THEN [tag |-> "Uninitialized", nonce |-> 0, current_day_idx |-> 0,
          total_staked |-> 0, last_crank_time |-> 0,
          owner |-> "", rewards_destination |-> ""]
    ELSE IF t = "Deleted"
    THEN StakePoolHeader_close(StakePoolHeader_new(owner, "alice", 0, 0))
    ELSE [StakePoolHeader_new(owner, "alice", 0, 0)
              EXCEPT !.tag = t, !.total_staked = staked, !.current_day_idx = 1]

\* the BondAccount read from the account of the bond when it holds tag t
BondOfTag(t, sold) ==
    IF t = "Uninitialized"
    THEN [tag |-> "Uninitialized", owner |-> "", stake_pool |-> ZeroKey,
          total_amount_sold |-> 0, total_staked |-> 0, unlock_amount |-> 0,
          total_unlocked_amount |-> 0, last_claimed_time |-> 0]
    ELSE [BondAccount_new("bob", sold, 100, 0) EXCEPT !.tag = t]

\* BondAccount::activate called on the bond as it is loaded
Activate(b) ==
    /\ bonds' = [bonds EXCEPT ![b] = activate(@)]
    /\ last' = Done("activate", b, 0, Outcome("Ok", 0, 0))
    /\ UNCHANGED <<pool, balances, stake_accounts, now, slot_writer, cranks, unlocks>>

\* creation of a bond in an account not yet written
CreateBond(b, sold) ==
    LET res == IF bonds[b].tag # "Uninitialized" THEN "AccountAlreadyInUse" ELSE "Ok"
    IN  /\ bonds' = IF res = "Ok"
                    THEN [bonds EXCEPT ![b] = BondAccount_new("bob", sold, 100, now)]
                    ELSE bonds
        /\ last' = Done("create_bond", b, sold, Outcome(res, 0, 0))
        /\ UNCHANGED <<pool, balances, stake_accounts, now, slot_writer, cranks, unlocks>>

\* one day after the pool was cranked; the stake of the bond is in the pool
\* when the bond is Active
InitTags ==
    /\ \E pt \in PoolTags, po \in PoolOwners, bt \in BondTags, sold \in BondAmounts :
          /\ pool = PoolOfTag(pt, po, IF bt = "BondAccount" THEN sold ELSE 0)
          /\ bonds = [b \in Bonds |-> BondOfTag(bt, sold)]
          /\ balances = IF pt \in {"StakePool", "Deleted"}
                        THEN (0 :> pool.total_staked) ELSE <<>>
          /\ slot_writer = IF pt \in {"StakePool", "Deleted"} THEN (0 :> 1) ELSE <<>>
          /\ cranks = IF pt \in {"StakePool", "Deleted"} THEN 1 ELSE 0
    /\ stake_accounts = [s \in Stakers |-> StakeAccount_new(s, 0)]
    /\ now = SECONDS_IN_DAY
    /\ unlocks = 0
    /\ last = Created

NextTags ==
    \/ \E b \in Bonds, in \in ClaimInputs :
              ClaimBondRewards(b, in[1], in[2], in[3], in[4], in[5])
    \/ \E b \in Bonds : ClaimBond(b)
    \/ \E b \in Bonds : Activate(b)
    \/ \E b \in Bonds, sold \in BondAmounts : CreateBond(b, sold)
    \/ \E in \in CloseInputs : CloseStakePool(in[1], in[2], in[3], in[4])

SpecTags == InitTags /\ [][NextTags]_vars

(***************************************************************************)
(* Reward arithmetic.  A pool that held the same stake on each of the days *)
(* of its history, and an Active bond that has not claimed since day 0.    *)
(***************************************************************************)
\* days of history, stake of the pool, stake of the bond
HistoryDays == {0, 1, 15, 50}
PoolStakes == {1000, U64_MAX}
BondStakes == {0, 200, 1000}

InitRewards ==
    /\ \E n \in HistoryDays, staked \in PoolStakes, sold \in BondStakes :
          /\ pool = [StakePoolHeader_new("alice", "alice", 0, 0)
                        EXCEPT !.total_staked = staked, !.current_day_idx = n,
                               !.last_crank_time = n * SECONDS_IN_DAY]
          /\ balances = [i \in WrittenSlots(n) |-> staked]
          /\ slot_writer = [i \in WrittenSlots(n) |-> LastWriter(i, n)]
          /\ cranks = n
          /\ now = n * SECONDS_IN_DAY
          /\ bonds = [b \in Bonds |-> activate(BondAccount_new("bob", sold, 100, 0))]
          /\ stake_accounts = [s \in Stakers |->
                 IF s = "s1"
                 THEN [StakeAccount_new(s, 0) EXCEPT !.stake_amount = staked - sold]
                 ELSE StakeAccount_new(s, 0)]
    /\ unlocks = 0
    /\ last = Created

NextRewards ==
    \E b \in Bonds, in \in ClaimInputs :
        ClaimBondRewards(b, in[1], in[2], in[3], in[4], in[5])

SpecRewards == InitRewards /\ [][NextRewards]_vars

(***************************************************************************)
(* Properties                                                              *)
(***************************************************************************)
\* the instruction just processed is `op` and it returned Ok
Succeeded(op) == last.op = op /\ last.result = "Ok"
Failed(op) == last.op = op /\ last.result # "Ok"

\* C1: calc_unlock_amount(missed_periods) returns the candidate
\* missed_periods * unlock_amount, or the remainder total_amount_sold -
\* total_unlocked_amount when total_unlocked_amount + candidate exceeds
\* total_amount_sold (whenever neither the product nor the sum leaves u64)
C1_UnlockClampsToRemainder ==
    [][last'.op = "unlock_bond_tokens" =>
        LET bond == bonds[last'.who]
            candidate == last'.arg * bond.unlock_amount
            remainder == bond.total_amount_sold - bond.total_unlocked_amount
        IN  (/\ BondAccount_from_account_info(bond, FALSE)
             /\ candidate <= U64_MAX
             /\ bond.total_unlocked_amount + candidate <= U64_MAX)
            => /\ last'.result = "Ok"
               /\ last'.amount = IF bond.total_unlocked_amount + candidate
                                       > bond.total_amount_sold
                                 THEN remainder ELSE candidate]_vars

\* C2: over every sequence of unlocks total_unlocked_amount never decreases
\* and never exceeds total_amount_sold, and an unlock whose candidate is
\* clamped leaves total_unlocked_amount = total_amount_sold
C2_UnlockedBounded ==
    /\ [](\A b \in Bonds : bonds[b].total_unlocked_amount <= bonds[b].total_amount_sold)
    /\ [][\A b \in Bonds :
            /\ bonds'[b].total_unlocked_amount >= bonds[b].total_unlocked_amount
            /\ (/\ last'.op = "unlock_bond_tokens" /\ last'.result = "Ok"
                /\ last'.amount > 0
                /\ bonds[b].total_unlocked_amount + last'.arg * bonds[b].unlock_amount
                       > bonds[b].total_amount_sold)
               => bonds'[b].total_unlocked_amount = bonds'[b].total_amount_sold]_vars

\* snapshot k (the k-th crank, k >= 1) is still in the buffer
Retrievable(k) == slot_value(slot_writer, (k - 1) % STAKE_BUFFER_LEN) = k

\* C9: the balance history is a circular buffer of 365 slots: after any
\* number n of cranks it has 365 slots and holds exactly the min(n, 365)
\* latest snapshots; after 366 cranks the first is overwritten by the 366th
C9_CircularBuffer ==
    /\ DOMAIN balances \subseteq 0 .. 364
    /\ DOMAIN balances = DOMAIN slot_writer
    /\ \A k \in 1 .. cranks : k + 2 * STAKE_BUFFER_LEN > cranks =>
          (Retrievable(k) <=> k + STAKE_BUFFER_LEN > cranks)
    /\ Cardinality(DOMAIN balances) = (IF cranks < 365 THEN cranks ELSE 365)
    /\ \A i \in DOMAIN balances : balances[i] = pool.total_staked
    /\ cranks = 366 => slot_writer[0] = 366 /\ \A k \in 2 .. 366 : Retrievable(k)


\* sum of f[x] over the elements x of S
RECURSIVE SumOver(_, _)
SumOver(S, f) ==
    IF S = {} THEN 0
    ELSE LET x == CHOOSE y \in S : TRUE IN f[x] + SumOver(S \ {x}, f)

\* stake of the non-deleted stake accounts and of the active bonds of the pool
StakeOfAccounts ==
    SumOver({s \in Stakers : stake_accounts[s].tag # "Deleted"},
            [s \in Stakers |-> stake_accounts[s].stake_amount])
StakeOfBonds ==
    SumOver({b \in Bonds : is_active(bonds[b])},
            [b \in Bonds |-> bonds[b].total_staked])

\* C3: after any interleaving of instructions pool.total_staked is the sum
\* of stake_amount over the non-deleted stake accounts plus total_staked
\* over the active bonds, so a stake or unstake moves the account and the
\* pool by the same amount in one step
C3_TotalStakedIsSum == pool.total_staked = StakeOfAccounts + StakeOfBonds

C3_Witness ==
    /\ Succeeded("unstake")
    /\ is_active(bonds["b1"])
    /\ \E s \in Stakers : stake_accounts[s].tag = "Deleted"
    /\ \E s \in Stakers : stake_accounts[s].stake_amount > 0

\* C4: a close of the stake pool succeeds only when total_staked = 0 and
\* then sets the tag to Deleted; with total_staked > 0 it fails, with
\* PoolNotEmpty once the caller is validated, and leaves the pool unchanged
C4_CloseOnlyWhenEmpty ==
    [][last'.op = "close_stake_pool" =>
        /\ last'.result = "Ok" => pool.total_staked = 0 /\ pool'.tag = "Deleted"
        /\ last'.result = "PoolNotEmpty" => pool.total_staked > 0
        /\ pool.total_staked > 0 =>
              /\ last'.result # "Ok"
              /\ pool' = pool /\ balances' = balances
        /\ (pool.total_staked > 0 /\ pool.tag = "StakePool")
              => last'.result \in {"PoolNotEmpty", "StakePoolOwnerMustSign",
                                   "AccountNotDeterministic", "WrongStakePoolOwner"}]_vars

C4_Witness == Failed("close_stake_pool") /\ last.result = "PoolNotEmpty"

\* C5: a Deleted stake pool stays Deleted, and every later instruction
\* that loads it fails and changes no account
PoolInstructions ==
    {"claim_bond_rewards", "crank", "stake", "unstake", "close_stake_pool", "claim_bond"}

C5_DeletedIsTerminal ==
    [][pool.tag = "Deleted" =>
        /\ pool'.tag = "Deleted"
        /\ last'.op \in PoolInstructions =>
              /\ last'.result # "Ok"
              /\ UNCHANGED <<pool, balances, stake_accounts, bonds, now>>]_vars

C5_Witness == pool.tag = "Deleted" /\ Failed("claim_bond_rewards")

\* the outcome of a claim of bond b by its owner in the current state
ClaimNow(b, supply) ==
    claim_outcome(pool, balances, bonds[b], now, bonds[b].owner, TRUE, "none",
                  supply, TRUE)

\* C6: a successful claim sets last_claimed_time to the current time, and a
\* second claim at that timestamp, nothing in between, pays a reward of 0
C6_ClaimSetsTime ==
    \A b \in Bonds :
        (Succeeded("claim_bond_rewards") /\ last.who = b) =>
            /\ bonds[b].last_claimed_time = now
            /\ \A supply \in Supplies :
                  ClaimNow(b, supply).result = "Ok" => ClaimNow(b, supply).amount = 0

C6_Witness ==
    /\ Succeeded("claim_bond_rewards") /\ last.amount > 0
    /\ bonds["b1"].last_claimed_time = now /\ now > SECONDS_IN_DAY
    /\ ClaimNow("b1", 1).result = "Ok" /\ ClaimNow("b1", 1).amount = 0

\* the reward arithmetic of a claim cannot be carried out: a division by
\* zero, a product beyond u128 or a result beyond u64
ArithmeticFails(agg, supply, bond_staked, pool_staked) ==
    \/ agg = None
    \/ supply = 0
    \/ pool_staked = 0
    \/ (agg # None /\ supply # 0 /\ pool_staked # 0) /\
       LET a == agg[1] \div supply
       IN  \/ a > U128_MAX \div STAKER_MULTIPLIER
           \/ /\ a <= U128_MAX \div STAKER_MULTIPLIER
              /\ LET c == (a * STAKER_MULTIPLIER) \div 100
                 IN  \/ (bond_staked # 0 /\ c > U128_MAX \div bond_staked)
                     \/ /\ ~(bond_staked # 0 /\ c > U128_MAX \div bond_staked)
                        /\ (c * bond_staked) \div pool_staked > U64_MAX

C8_TransferThenPersist ==
    [][last'.op = "claim_bond_rewards" =>
        LET bond == bonds[last'.who]
            agg == calc_previous_balances_and_inflation(
                       now, bond.last_claimed_time, pool, balances)
            rewards == calc_rewards(agg[1], last'.arg, bond.total_staked,
                                    pool.total_staked)
        IN  /\ last'.result = "Ok" =>
                  /\ last'.invoked = 1
                  /\ last'.amount = rewards[1]
                  /\ bonds'[last'.who].last_claimed_time = now
            /\ last'.result = "TransferFailed" =>
                  /\ last'.invoked = 1 /\ last'.amount = rewards[1]
                  /\ bonds' = bonds
            /\ last'.result \notin {"Ok", "TransferFailed"} =>
                  /\ last'.invoked = 0
                  /\ bonds' = bonds]_vars

C8_Witness ==
    /\ Failed("claim_bond_rewards") /\ last.result = "TransferFailed"
    /\ last.invoked = 1 /\ last.amount > 0
    /\ bonds["b1"].last_claimed_time < now

\* C10: a deposit that takes total_staked or stake_amount beyond u64
\* returns the Overflow error and a withdrawal of more than is staked
\* returns the Underflow error; neither changes the amounts
C10_CheckedStakeArithmetic ==
    [][(last'.op \in {"stake", "unstake"} /\ last'.result # "DataTypeMismatch") =>
        LET acc == stake_accounts[last'.who]
            over == \/ pool.total_staked + last'.arg > U64_MAX
                    \/ acc.stake_amount + last'.arg > U64_MAX
            under == \/ last'.arg > pool.total_staked
                     \/ last'.arg > acc.stake_amount
        IN  /\ (last'.op = "stake" /\ over) =>
                  /\ last'.result = "Overflow"
                  /\ pool' = pool /\ stake_accounts' = stake_accounts
            /\ (last'.op = "unstake" /\ under) =>
                  /\ last'.result = "Underflow"
                  /\ pool' = pool /\ stake_accounts' = stake_accounts]_vars

\* C11: current_day_idx never decreases and never resets: every crank of an
\* active pool, however many came before, succeeds, leaves the index
\* strictly greater than it was, and writes the slot that follows the slot
\* of the crank before it modulo 365
C11_DayIndexIncreases ==
    [][(last'.op = "crank" /\ get_checked(pool)) =>
        /\ last'.result = "Ok"
        /\ pool'.current_day_idx > pool.current_day_idx
        /\ \A i \in DOMAIN slot_writer, j \in DOMAIN slot_writer' :
              (slot_writer[i] = cranks /\ slot_writer'[j] = cranks')
                  => j = (i + 1) % STAKE_BUFFER_LEN]_vars

\* position of a tag in the lifecycle Inactive -> Active -> Deleted
LifecycleTags == {"InactiveBondAccount", "BondAccount", "Deleted"}
Rank(t) == IF t = "InactiveBondAccount" THEN 0 ELSE IF t = "BondAccount" THEN 1 ELSE 2

\* C12: a bond moves only forward through Inactive -> Active -> Deleted: it
\* is created Inactive with total_staked = total_amount_sold and nothing
\* unlocked, only an Inactive bond becomes Active, and no operation, activate
\* included, takes a Deleted or Active bond back to an earlier tag
C12_BondLifecycleForward ==
    [][\A b \in Bonds :
        /\ (last'.op = "create_bond" /\ last'.result = "Ok" /\ last'.who = b) =>
              /\ bonds'[b].tag = "InactiveBondAccount"
              /\ bonds'[b].total_staked = bonds'[b].total_amount_sold
              /\ bonds'[b].total_unlocked_amount = 0
        /\ bonds[b].tag \in LifecycleTags =>
              /\ bonds'[b].tag \in LifecycleTags
              /\ Rank(bonds'[b].tag) >= Rank(bonds[b].tag)
        /\ (bonds'[b].tag = "BondAccount" /\ bonds[b].tag # "BondAccount")
              => bonds[b].tag = "InactiveBondAccount"]_vars

\* the tags of a bond account that is not Active: Inactive, Deleted, or the
\* tag of another entity
NotActiveBondTags == Tag \ {"BondAccount", "Uninitialized"}

\* C16: a claim on valid accounts fails with DataTypeMismatch, invokes no
\* transfer and leaves the bond unchanged when the bond is Inactive, Deleted
\* or another entity, and when the pool is not an active StakePool; a claim
\* succeeds only on an Active bond of an active pool
C16_ClaimNeedsActiveTags ==
    [][(/\ last'.op = "claim_bond_rewards"
        /\ last'.result \notin {"WrongOwner", "StakePoolOwnerMustSign"}) =>
        LET bond == bonds[last'.who]
        IN  /\ (bond.tag \in NotActiveBondTags \/ pool.tag # "StakePool") =>
                  /\ last'.result = "DataTypeMismatch"
                  /\ last'.invoked = 0
                  /\ bonds' = bonds
            /\ last'.result = "Ok" => is_active(bond) /\ pool.tag = "StakePool"]_vars

\* the aggregate a claim of bond b computes in the current state
AggregateOf(b) ==
    calc_previous_balances_and_inflation(now, bonds[b].last_claimed_time,
                                         pool, balances)[1]

\* C13: the reward of a claim is computed with floor divisions in the order
\* ((((aggregate / supply) * 80) / 100) * bond.total_staked) / pool.total_staked;
\* for aggregate 50000, supply 10000, bond stake 200 and pool stake 1000 the
\* reward is 0
C13_RewardFloorOrder ==
    [][(last'.op = "claim_bond_rewards" /\ last'.result \in {"Ok", "TransferFailed"}) =>
        LET b == last'.who
            aggregate == AggregateOf(b)
            supply == last'.arg
            share == ((aggregate \div supply) * 80) \div 100
        IN  /\ last'.amount
                  = (share * bonds[b].total_staked) \div pool.total_staked
            /\ (/\ aggregate = 50000 /\ supply = 10000
                /\ bonds[b].total_staked = 200 /\ pool.total_staked = 1000)
                  => last'.amount = 0]_vars

C13_Witness ==
    /\ Succeeded("claim_bond_rewards") /\ last.arg = 10000 /\ last.amount = 0
    /\ cranks = 50 /\ \A i \in 0 .. 49 : balances[i] = 1000
    /\ pool.total_staked = 1000 /\ bonds["b1"].total_staked = 200

\* C20: a successful claim of a bond whose stake is at most the stake of the
\* pool pays at most floor(floor(aggregate / supply) * 80 / 100), and a bond
\* with no stake is paid 0
C20_RewardWithinShare ==
    [][(/\ last'.op = "claim_bond_rewards" /\ last'.result = "Ok"
        /\ bonds[last'.who].total_staked <= pool.total_staked) =>
        LET b == last'.who
            share == ((AggregateOf(b) \div last'.arg) * 80) \div 100
        IN  /\ last'.amount <= share
            /\ bonds[b].total_staked = 0 => last'.amount = 0]_vars

C20_Witness ==
    /\ Succeeded("claim_bond_rewards") /\ last.amount > 0
    /\ bonds["b1"].total_staked > 0
    /\ bonds["b1"].total_staked < pool.total_staked
    /\ bonds["b1"].last_claimed_time = 50 * SECONDS_IN_DAY

\* C14: a crank of a pool with day index d stores total_staked into
\* balances[d mod 365], then sets current_day_idx to d + 1 and
\* last_crank_time to the current time; total_staked, the other slots and
\* the other fields of the pool are unchanged
C14_CrankEffect ==
    [][(last'.op = "crank" /\ last'.result = "Ok") =>
        LET d == pool.current_day_idx
        IN  /\ slot_value(balances', d % 365) = pool.total_staked
            /\ \A i \in Slots \ {d % 365} :
                  slot_value(balances', i) = slot_value(balances, i)
            /\ pool'.current_day_idx = d + 1
            /\ pool'.last_crank_time = now
            /\ pool' = [pool EXCEPT !.current_day_idx = pool'.current_day_idx,
                                    !.last_crank_time = pool'.last_crank_time]]_vars

\* C15: calc_unlock_amount(missed_periods) returns the Overflow error, and no
\* wrapped or truncated value, whenever missed_periods * unlock_amount or
\* total_unlocked_amount + missed_periods * unlock_amount exceeds u64
C15_UnlockOverflowFails ==
    [][(/\ last'.op = "unlock_bond_tokens"
        /\ BondAccount_from_account_info(bonds[last'.who], FALSE)) =>
        LET bond == bonds[last'.who]
            candidate == last'.arg * bond.unlock_amount
        IN  (candidate > U64_MAX \/ bond.total_unlocked_amount + candidate > U64_MAX)
                => /\ last'.result = "Overflow"
                   /\ bonds' = bonds]_vars

C18_CloseValidatesCaller ==
    [][/\ (pool'.tag = "Deleted" /\ pool.tag # "Deleted") => last'.op = "close_stake_pool"
       /\ \A in \in CloseInputs :
            (last'.op = "close_stake_pool" /\ CloseStakePool(in[1], in[2], in[3], in[4])) =>
                LET caller == in[1]
                    signed == in[2]
                    derived == create_key(in[3], caller, in[4])
                IN  /\ (signed /\ derived # PoolKey) =>
                          last'.result = "AccountNotDeterministic" /\ pool' = pool
                    /\ (signed /\ derived = PoolKey /\ get_checked(pool)
                               /\ caller # pool.owner) =>
                          last'.result = "WrongStakePoolOwner" /\ pool' = pool
                    /\ caller # pool.owner => last'.result # "Ok" /\ pool' = pool
                    /\ pool'.tag # pool.tag =>
                          /\ pool'.tag = "Deleted"
                          /\ signed /\ caller = pool.owner /\ derived = PoolKey]_vars

C18_Witness ==
    /\ Failed("close_stake_pool") /\ last.result = "WrongStakePoolOwner"
    /\ pool.tag = "StakePool" /\ pool.owner = "bob" /\ pool.total_staked = 0

\* C19: a successful claim changes bond.last_claimed_time and nothing else:
\* the pool (total_staked, current_day_idx, last_crank_time, tag), its
\* balances, the other fields of the bond and every other account are as
\* before, so the sum of the stakes and the history are untouched
C19_ClaimFrame ==
    [][(last'.op = "claim_bond_rewards" /\ last'.result = "Ok") =>
        /\ pool' = pool
        /\ balances' = balances
        /\ stake_accounts' = stake_accounts
        /\ bonds' = [bonds EXCEPT ![last'.who].last_claimed_time =
                                      bonds'[last'.who].last_claimed_time]
        /\ C3_TotalStakedIsSum => C3_TotalStakedIsSum']_vars

C19_Witness ==
    /\ Succeeded("claim_bond_rewards") /\ last.amount > 0
    /\ cranks = 2 /\ pool.current_day_idx = 2
    /\ pool.total_staked > bonds["b1"].total_staked
    /\ bonds["b1"].last_claimed_time > pool.last_crank_time

====
